---- MODULE Spec2Model ----
(***************************************************************************)
(* Federation resolver of go-libravatar.                                   *)
(*                                                                         *)
(* The repository holds two generations of Libravatar.baseURL:             *)
(*   - the caching resolver (src/unnamed/part_000): a name cache keyed by  *)
(*     (service, domain) in front of net.LookupSRV, first record wins;     *)
(*   - the RFC 2782 resolver (src/libravatar.go): priority filtering and   *)
(*     weighted selection over the SRV records, no cache access.           *)
(* Spec     runs baseURL of either generation (chosen at construction),    *)
(*          one call at a time;                                            *)
(* SpecAPI  runs the public calls FromEmail and FromURL around it;         *)
(* SpecConc is the caching resolver called by concurrent goroutines.       *)
(*                                                                         *)
(* Time is counted in units of 12 hours.  A DNS answer is a record         *)
(* [err, addrs]: err is "nil", "timeout" (a *net.DNSError with IsTimeout)  *)
(* or "notfound" (any other *net.DNSError); addrs is empty with an error.  *)
(***************************************************************************)
EXTENDS Integers, Sequences, FiniteSets, TLC

VARIABLES
    nameCache,      \* Libravatar.nameCache: map[cacheKey]cacheValue
    fallbackHost,   \* Libravatar.fallbackHost
    v_useHTTPS,     \* Libravatar.useHTTPS
    clock,          \* what time.Now() returns
    generation,     \* which baseURL the handle runs: "cache" or "rfc2782"
    zone,           \* the answer the domain's zone gives the RFC 2782 resolver
    last,           \* the last call of baseURL and what it returned
    api,            \* the last call of FromEmail or FromURL and what it returned
    returned,       \* per key: what the call that stored the entry returned
    pc,             \* per goroutine: its position inside baseURL
    frame,          \* per goroutine: the locals of its baseURL call
    fatal           \* the Go runtime has aborted the process

vars == <<nameCache, fallbackHost, v_useHTTPS, clock, generation, zone, last, api,
          returned, pc, frame, fatal>>

----------------------------------------------------------------------------
(* Bounds *)

MaxTime == 3        \* the clock runs from 0 to MaxTime
MaxAddrs == 2       \* longest SRV answer given to the caching resolver
MaxRecords == 3     \* longest SRV answer given to the RFC 2782 resolver
NumCallers == 2     \* goroutines calling baseURL on one handle

(* Program constants *)

nameCacheDuration == 2      \* 24 * time.Hour, in units of 12 hours
secureFallbackHost == "seccdn.libravatar.org"
Uint16 == 65536             \* uint16 arithmetic is modulo 2^16

Domains == {"kbt.io"}
FallbackHosts == {"cdn.libravatar.org", "avatars.example.net"}
Targets == {"avatars.kbt.io.", "img.kbt.io."}
Hosts == <<"avatars.kbt.io.", "img.kbt.io.", "cdn.kbt.io.", "www.kbt.io.">>
Emails == {"strk@kbt.io", "invalid", "invalid@", "@invalid", ""}
OpenIDs == {"https://kbt.io/openid/", "http://kbt.io/openid/", "https://", "invalid"}
PriorityVals == {0, 1}
WeightVals == {0, 1, 10}

----------------------------------------------------------------------------
(* Data *)

\* A slip of the key: the service is left out of it.
cacheKey_domainOnly(service, domain) == [service |-> "", domain |-> domain]

cacheKey(service, domain) == [service |-> service, domain |-> domain]

cacheValue(target, checkedAt) == [target |-> target, checkedAt |-> checkedAt]

New ==
    [fallbackHost |-> "cdn.libravatar.org",
     useHTTPS |-> FALSE,
     nameCache |-> << >>,
     nameCacheDuration |-> nameCacheDuration]

SRV(target, port, priority, weight) ==
    [Target |-> target, Port |-> port, Priority |-> priority, Weight |-> weight]

SeqsUpTo(S, n) == UNION {[1..k -> S] : k \in 0..n}

DNSErrors ==
    {[err |-> "timeout", addrs |-> << >>], [err |-> "notfound", addrs |-> << >>]}

\* What net.LookupSRV may hand to the caching resolver.
CacheAnswers ==
    DNSErrors
    \cup {[err |-> "nil", addrs |-> a] :
            a \in SeqsUpTo({SRV(t, 80, 0, 0) : t \in Targets}, MaxAddrs)}

\* Weights of two records of one priority that use the upper end of the
\* uint16 range of net.SRV.Weight.
HeavyWeights == {<<65535, 1>>, <<65535, 10>>}

\* What net.LookupSRV may hand to the RFC 2782 resolver: the record at
\* position i has the target Hosts[i], any priority and any weight.
SRVAnswers ==
    DNSErrors
    \cup {[err |-> "nil",
           addrs |-> [i \in DOMAIN pw |-> SRV(Hosts[i], 80, pw[i][1], pw[i][2])]] :
            pw \in SeqsUpTo(PriorityVals \X WeightVals, MaxRecords)}
    \cup {[err |-> "nil",
           addrs |-> [i \in 1..2 |-> SRV(Hosts[i], 80, 0, w[i])]] :
            w \in HeavyWeights}

serviceOf(useHTTPS) == IF useHTTPS THEN "avatars-sec" ELSE "avatars"

schemeOf(useHTTPS) == IF useHTTPS THEN "https://" ELSE "http://"

\* tgt[:len(tgt)-1]
stripLast(tgt) == SubSeq(tgt, 1, Len(tgt) - 1)

\* A slip of the trimming: the target is used as DNS gave it.
TrimSuffixDot_kept(s) == s

\* strings.TrimSuffix(s, ".")
TrimSuffixDot(s) ==
    IF Len(s) >= 1 /\ SubSeq(s, Len(s), Len(s)) = "."
    THEN SubSeq(s, 1, Len(s) - 1)
    ELSE s

mapPut(m, k, v) == [x \in (DOMAIN m) \cup {k} |-> IF x = k THEN v ELSE m[x]]

\* Slips of the validity test: the boundary excluded, the age not looked at.
cacheValid_strict(found, val, now) ==
    found /\ now - val.checkedAt < nameCacheDuration

cacheValid_anyAge(found, val, now) == found

\* found && now.Sub(val.checkedAt) <= v.nameCacheDuration
cacheValid(found, val, now) ==
    found /\ now - val.checkedAt <= nameCacheDuration

NoCall ==
    [op |-> "none", domain |-> "", useHTTPS |-> FALSE, now |-> 0,
     found |-> FALSE, val |-> cacheValue("", 0), queries |-> 0,
     answer |-> [err |-> "nil", addrs |-> << >>], randnum |-> 0, picked |-> 0,
     url |-> "", err |-> "nil"]

NoApi == [op |-> "none", input |-> "", link |-> "", err |-> "nil"]

\* strings.Index(s, c) for a one-character c: the offset of the first c in s,
\* -1 when there is none.
RECURSIVE indexFrom(_, _, _)
indexFrom(s, c, k) ==
    IF k > Len(s) THEN -1
    ELSE IF SubSeq(s, k, k) = c THEN k - 1
    ELSE indexFrom(s, c, k + 1)

Index(s, c) == indexFrom(s, c, 1)

\* strings.Split(s, sep) for a one-character sep.
RECURSIVE Split(_, _)
Split(s, sep) ==
    LET i == Index(s, sep)
    IN IF i < 0 THEN <<s>>
       ELSE <<SubSeq(s, 1, i)>> \o Split(SubSeq(s, i + 2, Len(s)), sep)

\* getMD5 and getSHA256 / genHash: the digest is kept as a term over its input.
hashOf(algorithm, s) == algorithm \o "(" \o s \o ")"

\* The link built around a base URL; no parameter is ever set on the handle.
avatarLink(baseurl, hash) == baseurl \o "/avatar/" \o hash

----------------------------------------------------------------------------
(* The caching resolver, one call at a time *)

\* Slips of the miss path: a timeout answered (and stored) as the fallback,
\* a not-found answered with the fallback but not stored, a not-found
\* answered with the default host instead of the configured one.
lookupOutcome_timeoutFallback(url, fallback, answer) ==
    IF answer.err # "nil"
    THEN [url |-> url \o fallback, err |-> "nil", store |-> TRUE,
          target |-> fallback, picked |-> 0]
    ELSE IF Len(answer.addrs) < 1
         THEN [url |-> url, err |-> "empty SRV response", store |-> FALSE,
               target |-> "", picked |-> 0]
         ELSE LET tgt == stripLast(answer.addrs[1].Target)
              IN [url |-> url \o tgt, err |-> "nil", store |-> TRUE,
                  target |-> tgt, picked |-> 1]

lookupOutcome_notStored(url, fallback, answer) ==
    IF answer.err # "nil"
    THEN IF answer.err = "timeout"
         THEN [url |-> url, err |-> "timeout", store |-> FALSE, target |-> "",
               picked |-> 0]
         ELSE [url |-> url \o fallback, err |-> "nil", store |-> FALSE,
               target |-> fallback, picked |-> 0]
    ELSE IF Len(answer.addrs) < 1
         THEN [url |-> url, err |-> "empty SRV response", store |-> FALSE,
               target |-> "", picked |-> 0]
         ELSE LET tgt == stripLast(answer.addrs[1].Target)
              IN [url |-> url \o tgt, err |-> "nil", store |-> TRUE,
                  target |-> tgt, picked |-> 1]

lookupOutcome_defaultHost(url, fallback, answer) ==
    IF answer.err # "nil"
    THEN IF answer.err = "timeout"
         THEN [url |-> url, err |-> "timeout", store |-> FALSE, target |-> "",
               picked |-> 0]
         ELSE [url |-> url \o "cdn.libravatar.org", err |-> "nil",
               store |-> TRUE, target |-> "cdn.libravatar.org", picked |-> 0]
    ELSE IF Len(answer.addrs) < 1
         THEN [url |-> url, err |-> "empty SRV response", store |-> FALSE,
               target |-> "", picked |-> 0]
         ELSE LET tgt == stripLast(answer.addrs[1].Target)
              IN [url |-> url \o tgt, err |-> "nil", store |-> TRUE,
                  target |-> tgt, picked |-> 1]

\* The outcome of baseURL on a cache miss: what it returns and what it stores.
lookupOutcome(url, fallback, answer) ==
    IF answer.err # "nil"
    THEN IF answer.err = "timeout"
         THEN [url |-> url, err |-> "timeout", store |-> FALSE, target |-> "",
               picked |-> 0]
         ELSE [url |-> url \o fallback, err |-> "nil", store |-> TRUE,
               target |-> fallback, picked |-> 0]
    ELSE IF Len(answer.addrs) < 1
         THEN [url |-> url, err |-> "empty SRV response", store |-> FALSE,
               target |-> "", picked |-> 0]
         ELSE LET tgt == stripLast(answer.addrs[1].Target)
              IN [url |-> url \o tgt, err |-> "nil", store |-> TRUE,
                  target |-> tgt, picked |-> 1]

\* A slip of the hit path: a hit renews the entry's timestamp.
baseURL_cache_touch(domain, useHTTPS, answer) ==
    LET service == serviceOf(useHTTPS)
        url == schemeOf(useHTTPS)
        key == cacheKey(service, domain)
        now == clock
        found == key \in DOMAIN nameCache
        val == IF found THEN nameCache[key] ELSE cacheValue("", 0)
        call == [NoCall EXCEPT !.op = "baseURL", !.domain = domain,
                               !.useHTTPS = useHTTPS, !.now = now,
                               !.found = found, !.val = val]
    IN  IF cacheValid(found, val, now)
        THEN /\ last' = [call EXCEPT !.url = url \o val.target]
             /\ nameCache' = mapPut(nameCache, key, cacheValue(val.target, now))
             /\ UNCHANGED returned
        ELSE LET out == lookupOutcome(url, fallbackHost, answer)
             IN /\ last' = [call EXCEPT !.queries = 1, !.answer = answer,
                                        !.picked = out.picked,
                                        !.url = out.url, !.err = out.err]
                /\ IF out.store
                   THEN /\ nameCache' = mapPut(nameCache, key,
                                               cacheValue(out.target, now))
                        /\ returned' = mapPut(returned, key,
                                              [url |-> out.url, by |-> answer.err,
                                               at |-> now])
                   ELSE UNCHANGED <<nameCache, returned>>

baseURL_cache(domain, useHTTPS, answer) ==
    LET service == serviceOf(useHTTPS)
        url == schemeOf(useHTTPS)
        key == cacheKey(service, domain)
        now == clock
        found == key \in DOMAIN nameCache
        val == IF found THEN nameCache[key] ELSE cacheValue("", 0)
        call == [NoCall EXCEPT !.op = "baseURL", !.domain = domain,
                               !.useHTTPS = useHTTPS, !.now = now,
                               !.found = found, !.val = val]
    IN  IF cacheValid(found, val, now)
        THEN /\ last' = [call EXCEPT !.url = url \o val.target]
             /\ UNCHANGED <<nameCache, returned>>
        ELSE LET out == lookupOutcome(url, fallbackHost, answer)
             IN /\ last' = [call EXCEPT !.queries = 1, !.answer = answer,
                                        !.picked = out.picked,
                                        !.url = out.url, !.err = out.err]
                /\ IF out.store
                   THEN /\ nameCache' = mapPut(nameCache, key,
                                               cacheValue(out.target, now))
                        /\ returned' = mapPut(returned, key,
                                              [url |-> out.url, by |-> answer.err,
                                               at |-> now])
                   ELSE UNCHANGED <<nameCache, returned>>

Resolve ==
    /\ generation = "cache"
    /\ \E domain \in Domains, useHTTPS \in BOOLEAN, answer \in CacheAnswers :
          baseURL_cache(domain, useHTTPS, answer)
    /\ UNCHANGED <<fallbackHost, v_useHTTPS, clock, generation, zone, api, pc,
                   frame, fatal>>

SetFallbackHost ==
    /\ \E host \in FallbackHosts :
          /\ fallbackHost' = host
          /\ last' = [NoCall EXCEPT !.op = "SetFallbackHost"]
    /\ UNCHANGED <<nameCache, v_useHTTPS, clock, generation, zone, api,
                   returned, pc, frame, fatal>>

\* Time passes; only the caching generation ever reads the clock.
Tick ==
    /\ generation = "cache"
    /\ clock < MaxTime
    /\ clock' = clock + 1
    /\ UNCHANGED <<nameCache, fallbackHost, v_useHTTPS, generation, zone, last,
                   api, returned, pc, frame, fatal>>

----------------------------------------------------------------------------
(* The RFC 2782 resolver *)

\* A slip of the loop: a record of a lower priority value than top_priority
\* joins the list without restarting it.
scanStep_noRestart(st, rr, i) ==
    IF rr.Priority > st.top_priority
    THEN st
    ELSE LET total == (st.total_weight + rr.Weight) % Uint16
             rec == [srv |-> i, weight |-> total]
         IN [total_weight |-> total,
             records |-> IF rr.Weight > 0
                         THEN Append(st.records, rec)
                         ELSE <<rec>> \o st.records,
             top_priority |-> st.top_priority]

\* One pass of the loop over addrs: the records of the top priority seen so
\* far, each tagged with the running total of the weights.
scanStep(st, rr, i) ==
    IF rr.Priority > st.top_priority
    THEN st
    ELSE LET s1 == IF rr.Priority < st.top_priority
                   THEN [total_weight |-> 0, records |-> << >>,
                         top_priority |-> rr.Priority]
                   ELSE st
             total == (s1.total_weight + rr.Weight) % Uint16
             rec == [srv |-> i, weight |-> total]
         IN [total_weight |-> total,
             records |-> IF rr.Weight > 0
                         THEN Append(s1.records, rec)
                         ELSE <<rec>> \o s1.records,
             top_priority |-> s1.top_priority]

RECURSIVE scan(_, _)
scan(addrs, n) ==
    IF n = 0
    THEN [total_weight |-> 0, records |-> << >>,
          top_priority |-> addrs[1].Priority]
    ELSE scanStep(scan(addrs, n - 1), addrs[n], n)

\* The first record whose tag is >= randnum: its position in addrs, 0 if none.
RECURSIVE firstAtLeast(_, _, _)
firstAtLeast(records, randnum, k) ==
    IF k > Len(records) THEN 0
    ELSE IF records[k].weight >= randnum THEN records[k].srv
    ELSE firstAtLeast(records, randnum, k + 1)

\* The values rand.Intn(int(total_weight)) can return.  Intn(0) panics and
\* returns nothing; a call without a draw is given the draw 0.
draws(addrs) ==
    LET st == scan(addrs, Len(addrs))
    IN IF Len(addrs) > 1 /\ Len(st.records) # 1 /\ st.total_weight > 0
       THEN 0 .. (st.total_weight - 1)
       ELSE {0}

\* The position in addrs of top_record, 0 for nil, -1 when rand.Intn panics.
topRecord(addrs, randnum) ==
    LET st == scan(addrs, Len(addrs))
    IN IF Len(st.records) = 1 THEN st.records[1].srv
       ELSE IF st.total_weight = 0 THEN -1
       ELSE firstAtLeast(st.records, randnum % Uint16, 1)

\* What baseURL returns for an answer and a draw.
srvOutcome(protocol, fallback, answer, randnum) ==
    IF answer.err = "timeout"
    THEN [url |-> "", err |-> "timeout", picked |-> 0]
    ELSE IF Len(answer.addrs) = 1
    THEN [url |-> protocol \o TrimSuffixDot(answer.addrs[1].Target),
          err |-> "nil", picked |-> 1]
    ELSE IF Len(answer.addrs) > 1
    THEN LET top == topRecord(answer.addrs, randnum)
         IN IF top <= 0
            THEN [url |-> "", err |-> "panic", picked |-> 0]
            ELSE [url |-> protocol \o answer.addrs[top].Target \o ":"
                          \o ToString(answer.addrs[top].Port),
                  err |-> "nil", picked |-> top]
    ELSE [url |-> protocol \o fallback, err |-> "nil", picked |-> 0]

baseURL_rfc2782(domain, useHTTPS, answer, randnum) ==
    LET protocol == schemeOf(useHTTPS)
        fallback == IF useHTTPS THEN secureFallbackHost ELSE fallbackHost
        out == srvOutcome(protocol, fallback, answer, randnum)
    IN /\ last' = [NoCall EXCEPT !.op = "baseURL", !.domain = domain,
                                 !.useHTTPS = useHTTPS, !.queries = 1,
                                 !.answer = answer, !.randnum = randnum,
                                 !.picked = out.picked,
                                 !.url = out.url, !.err = out.err]
       /\ UNCHANGED <<nameCache, returned>>

ResolveSRV ==
    /\ generation = "rfc2782"
    /\ \E domain \in Domains, useHTTPS \in BOOLEAN :
          \E randnum \in draws(zone.addrs) :
             baseURL_rfc2782(domain, useHTTPS, zone, randnum)
    /\ UNCHANGED <<fallbackHost, v_useHTTPS, clock, generation, zone, api, pc,
                   frame, fatal>>

----------------------------------------------------------------------------
(* The public calls *)

SetUseHTTPS ==
    /\ \E use \in BOOLEAN : v_useHTTPS' = use
    /\ last' = [NoCall EXCEPT !.op = "SetUseHTTPS"]
    /\ api' = NoApi
    /\ UNCHANGED <<nameCache, fallbackHost, clock, generation, zone, returned,
                   pc, frame, fatal>>

\* What FromEmail or FromURL returns around the baseURL call just made.
apiResult(op, input, hash) ==
    [op |-> op, input |-> input,
     link |-> IF last'.err = "nil" THEN avatarLink(last'.url, hash) ELSE "",
     err |-> last'.err]

\* A call that returns its own error without calling baseURL.
apiError(op, input, err) ==
    /\ api' = [op |-> op, input |-> input, link |-> "", err |-> err]
    /\ last' = NoCall
    /\ UNCHANGED <<nameCache, returned>>

\* A slip of the address test: an empty local part is let through.
emailDomain_anyLocal(email) ==
    LET i == Index(email, "@")
        domain == SubSeq(email, i + 2, Len(email))
    IN IF i < 0 \/ Len(domain) = 0
       THEN [err |-> "invalid email", domain |-> ""]
       ELSE [err |-> "nil", domain |-> domain]

\* Caching generation, FromEmail: the domain is what follows the first "@".
emailDomain(email) ==
    LET i == Index(email, "@")
        domain == SubSeq(email, i + 2, Len(email))
    IN IF i < 1 \/ Len(domain) = 0
       THEN [err |-> "invalid email", domain |-> ""]
       ELSE [err |-> "nil", domain |-> domain]

\* Caching generation, FromURL: the domain is the third "/"-separated part,
\* and an "https:" first part forces the secure class for this call.
openidTarget(in, use) ==
    LET parts == Split(in, "/")
    IN IF Len(parts) < 3
       THEN [err |-> "invalid url", domain |-> "", useHTTPS |-> use]
       ELSE IF Len(parts[3]) = 0
       THEN [err |-> "invalid email", domain |-> "", useHTTPS |-> use]
       ELSE [err |-> "nil", domain |-> parts[3],
             useHTTPS |-> (use \/ parts[1] = "https:")]

FromEmail_cache ==
    /\ generation = "cache"
    /\ \E email \in Emails :
          LET d == emailDomain(email)
          IN IF d.err # "nil"
             THEN apiError("FromEmail", email, d.err)
             ELSE \E answer \in CacheAnswers :
                     /\ baseURL_cache(d.domain, v_useHTTPS, answer)
                     /\ api' = apiResult("FromEmail", email,
                                         hashOf("md5", email))
    /\ UNCHANGED <<fallbackHost, v_useHTTPS, clock, generation, zone, pc, frame,
                   fatal>>

FromURL_cache ==
    /\ generation = "cache"
    /\ \E in \in OpenIDs :
          LET t == openidTarget(in, v_useHTTPS)
          IN IF t.err # "nil"
             THEN apiError("FromURL", in, t.err)
             ELSE \E answer \in CacheAnswers :
                     /\ baseURL_cache(t.domain, t.useHTTPS, answer)
                     /\ api' = apiResult("FromURL", in, hashOf("sha256", in))
    /\ UNCHANGED <<fallbackHost, v_useHTTPS, clock, generation, zone, pc, frame,
                   fatal>>

\* mail.ParseAddress on a bare addr-spec: a non-empty local part, "@", a
\* non-empty domain.
ParseAddress(email) ==
    LET i == Index(email, "@")
    IN IF i >= 1 /\ i + 1 < Len(email)
       THEN [err |-> "nil", Address |-> email]
       ELSE [err |-> "mail: invalid address", Address |-> ""]

\* url.Parse(s).Host for "scheme://host/path" and "//user@host"; a string
\* without "//" has no host.
urlHost(s) ==
    LET parts == Split(s, "/")
    IN IF Len(parts) >= 3 /\ parts[2] = ""
       THEN LET authority == parts[3]
                i == Index(authority, "@")
            IN SubSeq(authority, i + 2, Len(authority))
       ELSE ""

\* getDomain: the host of "//" + address, or the host of the OpenID URL.
getDomain(email, openid) ==
    IF email # "" THEN urlHost("//" \o email) ELSE urlHost(openid)

\* The answer net.LookupSRV gives for a domain: the zone's for a domain that
\* exists, not-found for any other name.
answerFor(domain) ==
    IF domain \in Domains THEN zone
    ELSE [err |-> "notfound", addrs |-> << >>]

\* process: baseURL under the handle's useHTTPS flag, then the link.
process(op, input, email, openid, hash) ==
    LET domain == getDomain(email, openid)
        answer == answerFor(domain)
    IN \E randnum \in draws(answer.addrs) :
          /\ baseURL_rfc2782(domain, v_useHTTPS, answer, randnum)
          /\ api' = apiResult(op, input, hash)

FromEmail_rfc2782 ==
    /\ generation = "rfc2782"
    /\ \E email \in Emails :
          LET addr == ParseAddress(email)
          IN IF addr.err # "nil"
             THEN apiError("FromEmail", email, addr.err)
             ELSE process("FromEmail", email, addr.Address, "",
                          hashOf("md5", addr.Address))
    /\ UNCHANGED <<fallbackHost, v_useHTTPS, clock, generation, zone, pc, frame,
                   fatal>>

FromURL_rfc2782 ==
    /\ generation = "rfc2782"
    /\ \E in \in OpenIDs :
          process("FromURL", in, "", in, hashOf("sha256", in))
    /\ UNCHANGED <<fallbackHost, v_useHTTPS, clock, generation, zone, pc, frame,
                   fatal>>

----------------------------------------------------------------------------
(* The caching resolver called by concurrent goroutines *)

(* baseURL holds no lock, so its map accesses are the steps other goroutines *)
(* can interleave with.  A goroutine is at "read" while inside the map read  *)
(* v.nameCache[key] (line 108), at "lookup" while net.LookupSRV blocks (line *)
(* 113), at "write" while inside the map assignment (line 128 or 144), at    *)
(* "done" when baseURL has returned; each goroutine makes one call.  A map   *)
(* access that overlaps a write of another goroutine is a data race: the     *)
(* runtime either aborts the process ("concurrent map writes", "concurrent   *)
(* map read and map write") or lets both accesses take effect in some order. *)

Callers == 1..NumCallers

\* A caller's locals, and the history of its call: whether its map read
\* missed, the DNS queries it made, and the rank of its map assignment among
\* the assignments made so far (0 before it has assigned).
NoFrame ==
    [domain |-> "", useHTTPS |-> FALSE, now |-> 0, target |-> "",
     url |-> "", err |-> "nil", miss |-> FALSE, queries |-> 0, seq |-> 0]

\* The number of map assignments that have taken effect.
writesDone == Cardinality({g \in Callers : frame[g].seq > 0})

\* What net.LookupSRV may hand to a concurrent caller.
ConcAnswers ==
    DNSErrors
    \cup {[err |-> "nil", addrs |-> a] :
            a \in SeqsUpTo({SRV("avatars.kbt.io.", 80, 0, 0)}, 1)}

\* Two goroutines are inside a map access at once, one of them writing.
mapRace ==
    \E g, h \in Callers :
        g # h /\ pc[g] = "write" /\ pc[h] \in {"read", "write"}

\* Lines 96-108: the key and now are computed, the map read is entered.
Call(g) ==
    /\ ~fatal
    /\ pc[g] = "idle"
    /\ \E domain \in Domains, useHTTPS \in BOOLEAN :
          frame' = [frame EXCEPT ![g] = [NoFrame EXCEPT !.domain = domain,
                                                        !.useHTTPS = useHTTPS,
                                                        !.now = clock]]
    /\ pc' = [pc EXCEPT ![g] = "read"]
    /\ UNCHANGED <<nameCache, fallbackHost, v_useHTTPS, clock, generation,
                   zone, last, api, returned, fatal>>

\* Lines 108-112 and 146-147: the map read returns; a valid entry is returned.
ReadDone(g) ==
    /\ ~fatal
    /\ pc[g] = "read"
    /\ LET f == frame[g]
           key == cacheKey(serviceOf(f.useHTTPS), f.domain)
           found == key \in DOMAIN nameCache
           val == IF found THEN nameCache[key] ELSE cacheValue("", 0)
       IN IF cacheValid(found, val, f.now)
          THEN /\ frame' = [frame EXCEPT ![g].url =
                               schemeOf(f.useHTTPS) \o val.target]
               /\ pc' = [pc EXCEPT ![g] = "done"]
          ELSE /\ pc' = [pc EXCEPT ![g] = "lookup"]
               /\ frame' = [frame EXCEPT ![g].miss = TRUE]
    /\ UNCHANGED <<nameCache, fallbackHost, v_useHTTPS, clock, generation,
                   zone, last, api, returned, fatal>>

\* Lines 113-144: net.LookupSRV returns; an error return, or the map
\* assignment is entered.
LookupDone(g) ==
    /\ ~fatal
    /\ pc[g] = "lookup"
    /\ \E answer \in ConcAnswers :
          LET f == frame[g]
              out == lookupOutcome(schemeOf(f.useHTTPS), fallbackHost, answer)
          IN /\ frame' = [frame EXCEPT ![g].url = out.url, ![g].err = out.err,
                                       ![g].target = out.target,
                                       ![g].queries = 1]
             /\ pc' = [pc EXCEPT ![g] = IF out.store THEN "write" ELSE "done"]
    /\ UNCHANGED <<nameCache, fallbackHost, v_useHTTPS, clock, generation,
                   zone, last, api, returned, fatal>>

\* A slip of the map assignment: an entry already present is kept.
WriteDone_keepFirst(g) ==
    /\ ~fatal
    /\ pc[g] = "write"
    /\ LET f == frame[g]
           key == cacheKey(serviceOf(f.useHTTPS), f.domain)
       IN nameCache' = IF key \in DOMAIN nameCache
                       THEN nameCache
                       ELSE mapPut(nameCache, key, cacheValue(f.target, f.now))
    /\ pc' = [pc EXCEPT ![g] = "done"]
    /\ frame' = [frame EXCEPT ![g].seq = writesDone + 1]
    /\ UNCHANGED <<fallbackHost, v_useHTTPS, clock, generation, zone, last,
                   api, returned, fatal>>

\* Lines 128-129 and 144-147: the map assignment takes effect, baseURL returns.
WriteDone(g) ==
    /\ ~fatal
    /\ pc[g] = "write"
    /\ LET f == frame[g]
           key == cacheKey(serviceOf(f.useHTTPS), f.domain)
       IN nameCache' = mapPut(nameCache, key, cacheValue(f.target, f.now))
    /\ pc' = [pc EXCEPT ![g] = "done"]
    /\ frame' = [frame EXCEPT ![g].seq = writesDone + 1]
    /\ UNCHANGED <<fallbackHost, v_useHTTPS, clock, generation, zone, last,
                   api, returned, fatal>>

\* The runtime's check of the map's writing flag aborts the process.
RuntimeFatal ==
    /\ ~fatal
    /\ mapRace
    /\ fatal' = TRUE
    /\ UNCHANGED <<nameCache, fallbackHost, v_useHTTPS, clock, generation,
                   zone, last, api, returned, pc, frame>>

----------------------------------------------------------------------------
(* Specifications *)

Init ==
    /\ nameCache = New.nameCache
    /\ fallbackHost = New.fallbackHost
    /\ v_useHTTPS = New.useHTTPS
    /\ clock = 0
    /\ \/ generation = "cache" /\ zone = NoCall.answer
       \/ generation = "rfc2782" /\ zone \in SRVAnswers
    /\ last = NoCall
    /\ api = NoApi
    /\ returned = << >>
    /\ pc = << >>
    /\ frame = << >>
    /\ fatal = FALSE

Next == Resolve \/ ResolveSRV \/ SetFallbackHost \/ Tick

Spec == Init /\ [][Next]_vars

InitConc ==
    /\ nameCache = New.nameCache
    /\ fallbackHost = New.fallbackHost
    /\ v_useHTTPS = New.useHTTPS
    /\ clock = 0
    /\ generation = "cache"
    /\ zone = NoCall.answer
    /\ last = NoCall
    /\ api = NoApi
    /\ returned = << >>
    /\ pc = [g \in Callers |-> "idle"]
    /\ frame = [g \in Callers |-> NoFrame]
    /\ fatal = FALSE

NextConc ==
    \/ \E g \in Callers :
          Call(g) \/ ReadDone(g) \/ LookupDone(g) \/ WriteDone(g)
    \/ RuntimeFatal
    \/ Tick

SpecConc == InitConc /\ [][NextConc]_vars

\* The public calls on a handle of either generation; the zone of the RFC
\* 2782 generation publishes at most one record.
InitAPI ==
    /\ Init
    /\ Len(zone.addrs) <= 1

NextAPI ==
    \/ FromEmail_cache \/ FromURL_cache
    \/ FromEmail_rfc2782 \/ FromURL_rfc2782
    \/ SetUseHTTPS
    \/ Tick

SpecAPI == InitAPI /\ [][NextAPI]_vars

----------------------------------------------------------------------------
(* Properties *)

lastKey == cacheKey(serviceOf(last.useHTTPS), last.domain)

Schemes == {"http://", "https://"}

\* The age of the entry the last call found, at the time of the call.
lastAge == last.now - last.val.checkedAt

\* The last call asked DNS and got this kind of answer.
Answered(kind) ==
    /\ last.op = "baseURL"
    /\ last.queries = 1
    /\ CASE kind = "ok" -> last.answer.err = "nil" /\ Len(last.answer.addrs) >= 1
         [] kind = "empty" -> last.answer.err = "nil" /\ Len(last.answer.addrs) = 0
         [] OTHER -> last.answer.err = kind

\* The host a record's target names: the target without its final dot.
hostOf(target) == CHOOSE h \in {SubSeq(target, 1, n) : n \in 0..Len(target)} :
                     h \o "." = target

\* C1: a resolve of a key whose entry is at most TTL old (equality included)
\* performs no DNS query and returns without error the URL that the resolve
\* which stored the entry returned.
C1_HitWithinTTL ==
    (last.op = "baseURL" /\ last.found /\ lastAge <= nameCacheDuration)
    => /\ last.queries = 0
       /\ last.err = "nil"
       /\ last.url = returned[lastKey].url

C1_Witness ==
    /\ last.op = "baseURL" /\ last.found
    /\ lastAge = nameCacheDuration
    /\ last.queries = 0
    /\ last.url = returned[lastKey].url

\* C2: a resolve of a key whose entry is older than TTL performs exactly one
\* DNS query; when the answer is a record list or not-found, the key's entry is
\* overwritten with the new target and the time of the call, and the URL
\* returned is built from the new target.
C2_ExpiredRequeries ==
    (last.op = "baseURL" /\ last.found /\ lastAge > nameCacheDuration)
    => /\ last.queries = 1
       /\ (Answered("ok") \/ Answered("notfound"))
          => LET target == IF Answered("notfound") THEN fallbackHost
                           ELSE hostOf(last.answer.addrs[1].Target)
             IN /\ lastKey \in DOMAIN nameCache
                /\ nameCache[lastKey] = cacheValue(target, last.now)
                /\ last.url = schemeOf(last.useHTTPS) \o target
                /\ last.err = "nil"

C2_Witness ==
    /\ last.op = "baseURL" /\ last.found
    /\ lastAge > nameCacheDuration
    /\ Answered("ok")
    /\ nameCache[lastKey].target # last.val.target
    /\ nameCache[lastKey].checkedAt = last.now

\* C3: a resolve whose DNS lookup times out returns an error and a URL
\* without host, and the step leaves the whole cache as it was.
C3_TimeoutLeavesCache ==
    [][(last'.op = "baseURL" /\ last'.queries = 1
            /\ last'.answer.err = "timeout")
       => /\ last'.err # "nil"
          /\ last'.url \in Schemes \cup {""}
          /\ nameCache' = nameCache]_vars

C3_Witness ==
    /\ Answered("timeout")
    /\ last.found
    /\ lastKey \in DOMAIN nameCache
    /\ nameCache[lastKey] = last.val
    /\ last.err = "timeout"

\* C4: in the caching resolver a not-found answer makes resolve return
\* scheme + fallback host without error and store the fallback host as the
\* key's entry; a later resolve within TTL of an entry stored that way asks
\* DNS nothing and returns the same URL.
C4_NotFoundCached ==
    generation = "cache" =>
    /\ Answered("notfound")
       => /\ last.err = "nil"
          /\ last.url = schemeOf(last.useHTTPS) \o fallbackHost
          /\ lastKey \in DOMAIN nameCache
          /\ nameCache[lastKey] = cacheValue(fallbackHost, last.now)
    /\ (last.op = "baseURL" /\ last.found /\ lastAge <= nameCacheDuration
            /\ returned[lastKey].by = "notfound")
       => /\ last.queries = 0
          /\ last.err = "nil"
          /\ last.url = returned[lastKey].url
          /\ last.url = schemeOf(last.useHTTPS) \o last.val.target

C4_Witness ==
    /\ last.op = "baseURL" /\ last.found
    /\ lastAge <= nameCacheDuration
    /\ last.now > last.val.checkedAt
    /\ returned[lastKey].by = "notfound"
    /\ last.queries = 0
    /\ last.url = schemeOf(last.useHTTPS) \o "cdn.libravatar.org"

\* C5: a resolve whose DNS lookup returns no error and zero records returns
\* an error and leaves the cache as it was.
C5_EmptyAnswerIsError ==
    [][(last'.op = "baseURL" /\ last'.queries = 1
            /\ last'.answer.err = "nil" /\ Len(last'.answer.addrs) = 0)
       => /\ last'.err # "nil"
          /\ nameCache' = nameCache]_vars

\* The lowest priority value of a record list, the positions of the records
\* that have it (the top-priority tier), and the sum of a tier's weights.
minPriority(addrs) ==
    CHOOSE p \in {addrs[i].Priority : i \in DOMAIN addrs} :
        \A i \in DOMAIN addrs : p <= addrs[i].Priority

tier(addrs) == {i \in DOMAIN addrs : addrs[i].Priority = minPriority(addrs)}

RECURSIVE sumWeight(_, _)
sumWeight(addrs, S) ==
    IF S = {} THEN 0
    ELSE LET i == CHOOSE x \in S : TRUE
         IN addrs[i].Weight + sumWeight(addrs, S \ {i})

\* The RFC 2782 resolver was called on the zone's records.
Selected ==
    /\ generation = "rfc2782"
    /\ last.op = "baseURL"
    /\ zone.err = "nil"

\* C6: for a top-priority tier of N >= 2 records, all of weight > 0, with
\* W the sum of the weights, record i is the one selected for exactly
\* weight(i) of the draws 0..W-1.
C6_WeightedShare ==
    (Selected /\ Cardinality(tier(zone.addrs)) >= 2
        /\ \A i \in tier(zone.addrs) : zone.addrs[i].Weight > 0)
    => LET W == sumWeight(zone.addrs, tier(zone.addrs))
       IN \A i \in tier(zone.addrs) :
             Cardinality({r \in 0..(W - 1) : topRecord(zone.addrs, r) = i})
                = zone.addrs[i].Weight

\* C7: for a tier of one weight-0 and one weight-10 record, in either
\* order, each of the two records is selected for some draw in 0..9.
C7_ZeroWeightNotStarved ==
    (Selected /\ Len(zone.addrs) = 2
        /\ zone.addrs[1].Priority = zone.addrs[2].Priority
        /\ {zone.addrs[1].Weight, zone.addrs[2].Weight} = {0, 10})
    => \A i \in 1..2 : \E r \in 0..9 : topRecord(zone.addrs, r) = i

\* C8: for a record list of length >= 2, in any order of priorities, a call
\* that returns a URL has selected a record of the lowest priority value
\* present in the list, and a call that returns none has selected no record.
C8_TopPriorityOnly ==
    (Selected /\ Len(zone.addrs) >= 2)
    => /\ last.err = "nil"
          => /\ last.picked \in DOMAIN zone.addrs
             /\ zone.addrs[last.picked].Priority = minPriority(zone.addrs)
             /\ \A i \in DOMAIN zone.addrs :
                   zone.addrs[last.picked].Priority <= zone.addrs[i].Priority
       /\ last.err # "nil" => last.picked = 0 /\ last.url = ""

C8_Witness ==
    /\ Selected /\ Len(zone.addrs) >= 2
    /\ last.err = "nil"
    /\ zone.addrs[1].Priority > minPriority(zone.addrs)
    /\ Cardinality(tier(zone.addrs)) >= 2
    /\ last.picked = Len(zone.addrs)
    /\ last.randnum > 0

\* C9: when the top-priority tier holds two or more records, all of weight
\* 0, the call still returns, without error, a record of that tier.
C9_AllZeroTierSelects ==
    (Selected /\ Cardinality(tier(zone.addrs)) >= 2
        /\ \A i \in tier(zone.addrs) : zone.addrs[i].Weight = 0)
    => /\ last.err = "nil"
       /\ last.picked \in tier(zone.addrs)

\* C10: no two goroutines are inside an access to the resolution cache at
\* the same time with at least one of them writing.
C10_CacheAccessSerialized ==
    \A g, h \in Callers :
        (g # h /\ pc[g] = "write") => pc[h] \notin {"read", "write"}

\* C11: a not-found answer resolves under SECURE to https:// followed by
\* the fallback host of SECURE, and under PLAIN to http:// followed by the
\* fallback host of PLAIN.
C11_FallbackMatchesClass ==
    Answered("notfound")
    => /\ last.err = "nil"
       /\ last.url = IF last.useHTTPS
                     THEN "https://" \o secureFallbackHost
                     ELSE "http://" \o fallbackHost

\* C12: when DNS returns exactly one record, resolve returns without error
\* scheme + that record's target without its final dot and without a port,
\* whatever the record's weight and priority.
C12_SingleRecordBareHost ==
    (Answered("ok") /\ Len(last.answer.addrs) = 1)
    => /\ last.err = "nil"
       /\ last.picked = 1
       /\ last.url = schemeOf(last.useHTTPS)
                        \o hostOf(last.answer.addrs[1].Target)

C12_Witness ==
    /\ Answered("ok") /\ Len(last.answer.addrs) = 1
    /\ generation = "rfc2782"
    /\ last.answer.addrs[1] = SRV("avatars.kbt.io.", 80, 1, 10)
    /\ last.url = "http://avatars.kbt.io"

\* The identifier URL has the scheme https.
httpsScheme(in) == Len(in) >= 8 /\ SubSeq(in, 1, 8) = "https://"

\* C13: a FromURL call that reaches baseURL leaves the handle's useHTTPS flag
\* as it was; for an https identifier URL it resolves under the secure class
\* (secure flag, https:// result, avatars-sec key) whatever the flag is, and
\* for any other URL under the class the flag names.
C13_HttpsOpenIDIsSecure ==
    [][(api'.op = "FromURL" /\ last'.op = "baseURL")
       => /\ v_useHTTPS' = v_useHTTPS
          /\ last'.useHTTPS = (v_useHTTPS \/ httpsScheme(api'.input))
          /\ httpsScheme(api'.input)
             => /\ last'.err = "nil" => SubSeq(last'.url, 1, 8) = "https://"
                /\ \A k \in DOMAIN nameCache' :
                      (k \notin DOMAIN nameCache \/ nameCache'[k] # nameCache[k])
                      => k.service = "avatars-sec"]_vars

\* C14: FromEmail on an address without "@", with an empty local part or
\* with an empty domain returns an error and no link, does not call baseURL
\* (no DNS query) and leaves the cache as it was.
C14_InvalidEmailRejected ==
    [][(api'.op = "FromEmail"
            /\ api'.input \in {"invalid", "invalid@", "@invalid", ""})
       => /\ api'.err # "nil"
          /\ api'.link = ""
          /\ last'.op # "baseURL"
          /\ last'.queries = 0
          /\ nameCache' = nameCache]_vars

C14_Witness ==
    /\ api.op = "FromEmail"
    /\ api.input = "@invalid"
    /\ api.err # "nil"
    /\ last.queries = 0
    /\ nameCache # << >>

\* C15: a record yields the same base URL whether it is selected among
\* several records or is the only record of the answer.
C15_UniformFormatting ==
    (Selected /\ last.err = "nil" /\ last.picked > 0)
    => last.url = srvOutcome(schemeOf(last.useHTTPS), fallbackHost,
                             [err |-> "nil",
                              addrs |-> <<zone.addrs[last.picked]>>], 0).url

\* The key of a domain under a protocol class.
classKey(domain, secure) ==
    [service |-> IF secure THEN "avatars-sec" ELSE "avatars", domain |-> domain]

\* C16: a resolve of the caching resolver looks up, returns and writes only
\* the entry of its own (protocol class, domain) key: the entry of the same
\* domain under the other class is neither created, removed nor changed, and
\* a hit returns the target of the own key's entry.
C16_KeyedByClass ==
    [][(generation = "cache" /\ last'.op = "baseURL" /\ clock' = clock)
       => LET own == classKey(last'.domain, last'.useHTTPS)
              other == classKey(last'.domain, ~last'.useHTTPS)
          IN /\ (other \in DOMAIN nameCache') = (other \in DOMAIN nameCache)
             /\ other \in DOMAIN nameCache => nameCache'[other] = nameCache[other]
             /\ DOMAIN nameCache' \subseteq (DOMAIN nameCache) \cup {own}
             /\ last'.found = (own \in DOMAIN nameCache)
             /\ last'.found => last'.val = nameCache[own]
             /\ last'.queries = 0
                => last'.url = schemeOf(last'.useHTTPS) \o nameCache[own].target
      ]_vars

C16_Witness ==
    /\ generation = "cache" /\ last.op = "baseURL"
    /\ last.queries = 0
    /\ classKey(last.domain, ~last.useHTTPS) \in DOMAIN nameCache
    /\ nameCache[classKey(last.domain, ~last.useHTTPS)].target
          # nameCache[classKey(last.domain, last.useHTTPS)].target
    /\ nameCache[classKey(last.domain, ~last.useHTTPS)].checkedAt
          # nameCache[classKey(last.domain, last.useHTTPS)].checkedAt

\* A resolve of the caching resolver that was served from the cache, from
\* an entry that a not-found answer stored.
ServedNotFound ==
    /\ generation = "cache" /\ last.op = "baseURL" /\ last.queries = 0
    /\ last.err = "nil" /\ returned[lastKey].by = "notfound"

\* C19 as stated: every resolve of a domain without a published record
\* returns scheme + the fallback host configured now, also when it is served
\* from an entry stored under the previous fallback host.
C19_NewFallbackAlwaysServed ==
    (generation = "cache" /\ (Answered("notfound") \/ ServedNotFound))
    => last.url = schemeOf(last.useHTTPS) \o fallbackHost

\* C19 amended: a resolve that queries DNS and gets not-found returns
\* scheme + the fallback host configured now and stores that host; a resolve
\* served from an entry that is still within its TTL returns the URL of the
\* resolution that stored the entry, whatever the fallback host is now.
C19_FallbackAtResolution ==
    generation = "cache"
    => /\ Answered("notfound")
          => /\ last.url = schemeOf(last.useHTTPS) \o fallbackHost
             /\ nameCache[lastKey].target = fallbackHost
       /\ ServedNotFound
          => /\ last.url = returned[lastKey].url
             /\ last.val.target \in FallbackHosts
             /\ lastAge <= nameCacheDuration

C19_Witness ==
    /\ ServedNotFound
    /\ last.url # schemeOf(last.useHTTPS) \o fallbackHost
    /\ last.url = schemeOf(last.useHTTPS) \o "cdn.libravatar.org"

\* C20: a resolve served from the cache leaves the cache as it was, and the
\* timestamp of an entry stays that of the resolution that stored it, so a
\* resolve later than TTL after that resolution queries DNS again.
C20_HitLeavesCache ==
    [][(generation = "cache" /\ last'.op = "baseURL" /\ clock' = clock)
       => LET own == classKey(last'.domain, last'.useHTTPS)
          IN /\ last'.queries = 0
                => /\ nameCache' = nameCache
                   /\ returned' = returned
                   /\ nameCache'[own] = last'.val
                   /\ last'.now - returned[own].at <= nameCacheDuration
             /\ (own \in DOMAIN nameCache
                   /\ last'.now - returned[own].at > nameCacheDuration)
                => last'.queries = 1
             /\ \A k \in DOMAIN nameCache' :
                   nameCache'[k].checkedAt = returned'[k].at
      ]_vars

C20_Witness ==
    /\ generation = "cache" /\ last.op = "baseURL" /\ last.queries = 0
    /\ last.now > last.val.checkedAt
    /\ nameCache[lastKey] = last.val
    /\ returned[lastKey].at = last.val.checkedAt

\* C18: for every answer of two or more records the running total of the
\* scan equals the arithmetic sum of the top tier's weights, so it is > 0
\* when some tier weight is > 0, and the tags of the candidates of
\* weight > 0 strictly increase in the order of the candidate list.
C18_TotalIsTrueSum ==
    (Selected /\ Len(zone.addrs) > 1)
    => LET st == scan(zone.addrs, Len(zone.addrs))
           W == sumWeight(zone.addrs, tier(zone.addrs))
           heavy == {k \in DOMAIN st.records :
                        zone.addrs[st.records[k].srv].Weight > 0}
       IN /\ st.total_weight = W
          /\ W > 0 => st.total_weight > 0
          /\ \A k, l \in heavy :
                k < l => st.records[k].weight < st.records[l].weight

\* The key a concurrent caller resolves.
frameKey(g) == classKey(frame[g].domain, frame[g].useHTTPS)

\* C17: a caller whose map read missed makes its own DNS query, whatever
\* the other callers are doing, returns the URL built from its own answer
\* and, unless the query failed, assigns the key; the key holds one entry,
\* the (target, timestamp) of the caller that assigned it last.
C17_NoSingleFlight ==
    /\ \A g \in Callers :
          (pc[g] = "done" /\ frame[g].miss)
          => /\ frame[g].queries = 1
             /\ frame[g].err = "nil"
                => /\ frame[g].seq > 0
                   /\ frame[g].url
                         = schemeOf(frame[g].useHTTPS) \o frame[g].target
    /\ \A g \in Callers :
          (frame[g].seq > 0
             /\ \A h \in Callers :
                   frameKey(h) = frameKey(g) => frame[h].seq <= frame[g].seq)
          => /\ frameKey(g) \in DOMAIN nameCache
             /\ nameCache[frameKey(g)]
                   = cacheValue(frame[g].target, frame[g].now)

C17_Witness ==
    /\ ~fatal
    /\ \E g, h \in Callers :
          /\ g # h /\ pc[g] = "done" /\ pc[h] = "done"
          /\ frameKey(g) = frameKey(h)
          /\ frame[g].miss /\ frame[h].miss
          /\ frame[g].queries = 1 /\ frame[h].queries = 1
          /\ frame[g].seq > 0 /\ frame[h].seq > frame[g].seq
          /\ frame[g].target # frame[h].target
          /\ frame[g].now > frame[h].now
          /\ nameCache[frameKey(g)] = cacheValue(frame[h].target, frame[h].now)

====
